---- MODULE Spec2Model ----
(***************************************************************************)
(* Model of cubes/providers.py: the model provider (construction, store    *)
(* binding, accessors and cube resolution), the model bundle reader and    *)
(* writer, and the model metadata validator.                               *)
(*                                                                         *)
(* A Python dictionary over a known key set is a function from those keys  *)
(* to values, with ABSENT standing for "the key is not in the dictionary". *)
(* Python's None is the value NONE.                                        *)
(***************************************************************************)
EXTENDS Integers, Sequences, FiniteSets, TLC

VARIABLES
    metadata,              \* ModelProvider.metadata (model-level part)
    cubes_metadata,        \* ModelProvider.cubes_metadata: name -> cube dict
    dimensions_metadata,   \* ModelProvider.dimensions_metadata: name -> dim
    options,               \* ModelProvider.options
    store,                 \* ModelProvider.store
    store_name,            \* ModelProvider.store_name
    initCalls,             \* number of initialize_from_store() invocations
    setStoreCalls,         \* number of set_store() calls made so far
    result,                \* outcome of the last provider call
    metadata0,             \* metadata as left by __init__
    cubes_metadata0,       \* cubes_metadata as left by __init__
    dimensions_metadata0,  \* dimensions_metadata as left by __init__
    src,                   \* the bundle directory that is read
    target,                \* the path write_model_metadata_bundle is given
    pc,                    \* position in read / write / read back
    model1,                \* outcome of read_model_metadata_bundle(src)
    written,               \* outcome of write_model_metadata_bundle(target, ..)
    model2,                \* outcome of read_model_metadata_bundle(target)
    vmeta,                 \* metadata handed to validate_model
    vresult,               \* outcome of validate_model(vmeta)
    mdefaults,             \* defaults handed to _merge_metadata
    muser,                 \* user metadata handed to _merge_metadata
    mresult                \* outcome of _merge_metadata(mdefaults, muser)

providerVars == << metadata, cubes_metadata, dimensions_metadata, options,
                   store, store_name, initCalls, setStoreCalls, result,
                   metadata0, cubes_metadata0, dimensions_metadata0 >>

bundleVars == << src, target, pc, model1, written, model2 >>

validatorVars == << vmeta, vresult >>

mergeVars == << mdefaults, muser, mresult >>

vars == << providerVars, bundleVars, validatorVars, mergeVars >>

----------------------------------------------------------------------------
(* Dictionaries *)

ABSENT == "absent"
NONE == "None"

\* The parts of the module a specification does not exercise stay idle.
ProviderIdle ==
    /\ metadata = NONE /\ cubes_metadata = NONE /\ dimensions_metadata = NONE
    /\ options = NONE /\ store = NONE /\ store_name = NONE
    /\ initCalls = 0 /\ setStoreCalls = 0 /\ result = NONE
    /\ metadata0 = NONE /\ cubes_metadata0 = NONE
    /\ dimensions_metadata0 = NONE

BundleIdle ==
    /\ src = NONE /\ target = NONE /\ pc = "idle"
    /\ model1 = NONE /\ written = NONE /\ model2 = NONE

ValidatorIdle == vmeta = NONE /\ vresult = NONE

MergeIdle == mdefaults = NONE /\ muser = NONE /\ mresult = NONE

\* Keys used in options / browser_options / mappings dictionaries.
OptKeys == {"k1", "k2"}

\* Keys of a join dictionary.
JoinKeys == {"name", "master", "detail", "alias"}

EmptyDict == [k \in OptKeys |-> ABSENT]

EmptyJoin == [k \in JoinKeys |-> ABSENT]

\* "key in d"
Has(d, k) == d[k] # ABSENT

\* bool(d) of a dictionary: non-empty
NonEmpty(d) == \E k \in DOMAIN d : d[k] # ABSENT

\* d.get(k): None when the key is missing
Get(d, k) == IF d[k] = ABSENT THEN NONE ELSE d[k]

\* bool(v) of a string-or-None value: None, a missing key and "" are falsy
Truthy(v) == v \notin {ABSENT, NONE, ""}

\* d.update(e) / dict(d) followed by update(e): the value of d afterwards
DictUpdate(d, e) == [k \in DOMAIN d |-> IF e[k] # ABSENT THEN e[k] ELSE d[k]]

----------------------------------------------------------------------------
(* ModelProvider.cube_metadata *)

NoError == [kind |-> "none", cube |-> NONE, join |-> NONE]

NoCube == [name |-> NONE, datastore |-> NONE, browser_options |-> EmptyDict,
           mappings |-> EmptyDict, joins |-> << >>, options |-> EmptyDict]

\* Lines 346-348: the cube's datastore unless it is missing or falsy, else
\* self.metadata.get("datastore")
ResolveDatastore(md, cube) ==
    IF Truthy(cube.datastore) THEN cube.datastore ELSE Get(md, "datastore")

\* Line 351: self.metadata.get('browser_options', {}) is the model's own
\* dictionary object when the key exists, a fresh one otherwise.
\* Lines 352-354: that object is updated in place with the cube's options.
ResolveBrowserOptions(md, cube) ==
    IF NonEmpty(cube.browser_options)
    THEN DictUpdate(md.browser_options, cube.browser_options)
    ELSE md.browser_options

\* The model's browser_options after lines 351-353 ran for `cube`.
ModelBrowserOptionsAfter(md, cube) ==
    IF md.has_browser_options
    THEN ResolveBrowserOptions(md, cube)
    ELSE md.browser_options

\* The overlay of lines 358-367 the other way round: the model's entries
\* replace the cube's.
ResolveMappingsModelWins(md, cube) ==
    IF NonEmpty(md.mappings)
    THEN DictUpdate(cube.mappings, md.mappings)
    ELSE cube.mappings

\* Lines 358-367
ResolveMappings(md, cube) ==
    IF NonEmpty(md.mappings)
    THEN DictUpdate(md.mappings, cube.mappings)
    ELSE cube.mappings

\* The model's mappings after lines 358-367 ran: line 362 updates a
\* deepcopy, so the stored dictionary is not written.
ModelMappingsAfter(md, cube) == md.mappings

\* Lines 378-389: position of the first model join that makes the index build
\* raise (0 when the index is built).
IndexBad(model_joins, i) ==
    \/ model_joins[i].name = ABSENT
    \/ \E k \in 1..(i - 1) : model_joins[k].name = model_joins[i].name

\* The index build without line 385: only a missing name raises.
FirstIndexBadMissingOnly(model_joins) ==
    IF \E i \in 1..Len(model_joins) : model_joins[i].name = ABSENT
    THEN CHOOSE i \in 1..Len(model_joins) :
            /\ model_joins[i].name = ABSENT
            /\ \A k \in 1..(i - 1) : model_joins[k].name # ABSENT
    ELSE 0

FirstIndexBad(model_joins) ==
    IF \E i \in 1..Len(model_joins) : IndexBad(model_joins, i)
    THEN CHOOSE i \in 1..Len(model_joins) :
            /\ IndexBad(model_joins, i)
            /\ \A k \in 1..(i - 1) : ~IndexBad(model_joins, k)
    ELSE 0

\* model_join_map.has_key(name)
HasKey(model_joins, name) ==
    \E i \in 1..Len(model_joins) : model_joins[i].name = name

\* model_join_map[name] (names are unique once the index is built)
Lookup(model_joins, name) ==
    model_joins[CHOOSE i \in 1..Len(model_joins) : model_joins[i].name = name]

\* MergeJoin with the update the wrong way round: the model join's fields
\* win over the cube join's.
MergeJoinModelWins(model_joins, join) ==
    IF Truthy(join.name) /\ HasKey(model_joins, join.name)
    THEN DictUpdate(join, Lookup(model_joins, join.name))
    ELSE DictUpdate(EmptyJoin, join)

\* Lines 395-402: one cube join merged over the model join of the same name
MergeJoin(model_joins, join) ==
    IF Truthy(join.name) /\ HasKey(model_joins, join.name)
    THEN DictUpdate(Lookup(model_joins, join.name), join)
    ELSE DictUpdate(EmptyJoin, join)

\* Lines 376-404
MergedJoins(model_joins, cube_joins) ==
    IF Len(cube_joins) > 0 /\ Len(model_joins) > 0
    THEN [i \in 1..Len(cube_joins) |-> MergeJoin(model_joins, cube_joins[i])]
    ELSE cube_joins

\* The local variable `name` when the validation loop (407-413) runs: the
\* loop at 394-395 rebinds it to join.get('name') of each cube join.
NameAtValidation(cname, model_joins, cube_joins) ==
    IF Len(cube_joins) > 0 /\ Len(model_joins) > 0
    THEN Get(cube_joins[Len(cube_joins)], "name")
    ELSE cname

JoinBad(join) == ~Has(join, "master") \/ ~Has(join, "detail")

\* Lines 407-413: position of the first join that fails validation, else 0
FirstJoinBad(joins) ==
    IF \E i \in 1..Len(joins) : JoinBad(joins[i])
    THEN CHOOSE i \in 1..Len(joins) :
            /\ JoinBad(joins[i])
            /\ \A k \in 1..(i - 1) : ~JoinBad(joins[k])
    ELSE 0

\* Lines 369-415: the error raised by the join part, NoError if none
JoinError(cname, model_joins, cube_joins) ==
    LET both   == Len(cube_joins) > 0 /\ Len(model_joins) > 0
        ib     == IF both THEN FirstIndexBad(model_joins) ELSE 0
        merged == MergedJoins(model_joins, cube_joins)
        jb     == FirstJoinBad(merged)
        vname  == NameAtValidation(cname, model_joins, cube_joins)
    IN  IF ib # 0
        THEN [kind |-> IF model_joins[ib].name = ABSENT
                       THEN "missing_join_name" ELSE "duplicate_join_name",
              cube |-> NONE,
              join |-> Get(model_joins[ib], "name")]
        ELSE IF jb # 0
        THEN [kind |-> IF ~Has(merged[jb], "master")
                       THEN "no_master" ELSE "no_detail",
              cube |-> vname,
              join |-> Get(merged[jb], "name")]
        ELSE NoError

\* Lines 335-417: what cube_metadata(name) does on a provider whose model
\* metadata is md and whose cube map is cubes: the outcome of the call and
\* the model's browser_options dictionary as the call leaves it.
CubeMetadataOutcome(md, cubes, name) ==
    IF name \notin DOMAIN cubes
    THEN [status |-> "NoSuchCubeError",
          error |-> [kind |-> "unknown_cube", cube |-> name, join |-> NONE],
          cube |-> NoCube,
          model_browser_options |-> md.browser_options,
          model_mappings |-> md.mappings]
    ELSE
        LET cube == cubes[name]
            err  == JoinError(name, md.joins, cube.joins)
        IN  IF err.kind # "none"
            THEN [status |-> "ModelError",
                  error |-> err,
                  cube |-> NoCube,
                  model_browser_options |-> ModelBrowserOptionsAfter(md, cube),
                  model_mappings |-> ModelMappingsAfter(md, cube)]
            ELSE [status |-> "ok",
                  error |-> NoError,
                  cube |-> [name |-> cube.name,
                            datastore |-> ResolveDatastore(md, cube),
                            browser_options |-> ResolveBrowserOptions(md, cube),
                            mappings |-> ResolveMappings(md, cube),
                            joins |-> MergedJoins(md.joins, cube.joins),
                            options |-> cube.options],
                  model_browser_options |-> ModelBrowserOptionsAfter(md, cube),
                  model_mappings |-> ModelMappingsAfter(md, cube)]

----------------------------------------------------------------------------
(* ModelProvider construction *)

\* The last element of seq whose name is n: later entries of the list
\* overwrite earlier ones in the name maps built at lines 239-245.
LastNamed(seq, n) ==
    seq[CHOOSE i \in 1..Len(seq) :
            /\ seq[i].name = n
            /\ \A k \in (i + 1)..Len(seq) : seq[k].name # n]

NameMap(seq) ==
    [n \in {seq[i].name : i \in 1..Len(seq)} |-> LastNamed(seq, n)]

\* Lines 248-249: self.options is the model's "options" dictionary (a fresh
\* one when the key is missing) updated with the model's browser_options.
InitialOptions(user) == DictUpdate(user.options, user.browser_options)

\* Lines 235-249: self.metadata after construction from the user metadata
\* (default_metadata() is empty). When the model has an "options" key,
\* self.options is that very dictionary, so line 249 updates it too.
InitialMetadata(user) ==
    [user EXCEPT !.options = IF user.has_options
                             THEN InitialOptions(user) ELSE user.options]

NoDim == [name |-> NONE, label |-> NONE]

NoResult == [op |-> "none", name |-> NONE, status |-> "none",
             error |-> NoError, cube |-> NoCube, opts |-> EmptyDict,
             dim |-> NoDim]

----------------------------------------------------------------------------
(* Bounds and input sets of the provider specifications *)

MaxSetStore == 2
MaxModelJoins == 2
MaxCubeJoins == 2

CubeNames == {"c1", "c2", "cX"}      \* "cX" is never registered
DimNames == {"d1", "dX"}             \* "dX" is never registered
Stores == {"store1", "store2"}
StoreNames == {"default"}

SeqsUpTo(S, n) == UNION {[1..k -> S] : k \in 0..n}

\* Model-level joins: every name shape (missing, empty, two proper names);
\* master always given, detail and alias given or not.
ModelJoinValues ==
    {j \in [JoinKeys -> {ABSENT, "", "j1", "j2", "m.master", "m.detail", "m.alias"}] :
        /\ j.name \in {ABSENT, "", "j1", "j2"}
        /\ j.master = "m.master"
        /\ j.detail \in {ABSENT, "m.detail"}
        /\ j.alias = "m.alias"
        /\ (j.detail = ABSENT => j.name = "j1")}

\* Cube-level joins: every name shape; master or detail may be left to the
\* model join.
CubeJoinValues ==
    {j \in [JoinKeys -> {ABSENT, "", "j1", "j2", "c.master", "c.detail"}] :
        /\ j.name \in {ABSENT, "", "j1", "j2"}
        /\ j.master \in {ABSENT, "c.master"}
        /\ j.detail \in {ABSENT, "c.detail"}
        /\ j.alias = ABSENT
        /\ (j.master = ABSENT => j.detail # ABSENT)
        /\ (j.detail = ABSENT => j.name = "j1")
        /\ (j.name \in {"", "j2"} => j.master # ABSENT)}

DictOf(k, v) == [EmptyDict EXCEPT ![k] = v]

Dim(n) == [name |-> n, label |-> n]

\* User metadata handed to the constructor in the provider specification:
\* model-level settings and two cubes overriding some of them.
ProviderModels ==
    {[datastore |-> ds,
      has_browser_options |-> bo[1],
      browser_options |-> bo[2],
      mappings |-> mp,
      joins |-> << [name |-> "j1", master |-> "m.master",
                    detail |-> "m.detail", alias |-> "m.alias"] >>,
      has_options |-> op[1],
      options |-> op[2],
      cubes |-> << c1, c2 >>,
      dimensions |-> << Dim("d1") >>] :
        ds \in {ABSENT, "ds_model"},
        bo \in {<<FALSE, EmptyDict>>, <<TRUE, EmptyDict>>,
                <<TRUE, DictOf("k1", "m")>>},
        mp \in {EmptyDict, DictOf("k1", "m")},
        op \in {<<TRUE, DictOf("k2", "o")>>},
        c1 \in {[name |-> "c1", datastore |-> cds, browser_options |-> cbo,
                 mappings |-> cmp, joins |-> cj, options |-> EmptyDict] :
                    cds \in {ABSENT, "ds_c1"},
                    cbo \in {EmptyDict, DictOf("k1", "c1")},
                    cmp \in {EmptyDict, DictOf("k1", "c1")},
                    cj \in {<< >>,
                            << [name |-> "j1", master |-> ABSENT,
                                detail |-> "c.detail", alias |-> ABSENT] >>,
                            << [name |-> ABSENT, master |-> "c.master",
                                detail |-> ABSENT, alias |-> ABSENT] >>}},
        c2 \in {[name |-> "c2", datastore |-> ABSENT, browser_options |-> cbo,
                 mappings |-> EmptyDict, joins |-> << >>,
                 options |-> DictOf("k1", "o2")] :
                    cbo \in {EmptyDict, DictOf("k2", "c2")}}}

\* User metadata of the join specification: one cube, every combination of
\* model-level and cube-level join lists within the bounds.
JoinModels ==
    {[datastore |-> "ds_model",
      has_browser_options |-> FALSE,
      browser_options |-> EmptyDict,
      mappings |-> EmptyDict,
      joins |-> mj,
      has_options |-> FALSE,
      options |-> EmptyDict,
      cubes |-> << [name |-> "c1", datastore |-> ABSENT,
                    browser_options |-> EmptyDict, mappings |-> EmptyDict,
                    joins |-> cj, options |-> EmptyDict] >>,
      dimensions |-> << Dim("d1") >>] :
        mj \in SeqsUpTo(ModelJoinValues, MaxModelJoins),
        cj \in SeqsUpTo(CubeJoinValues, MaxCubeJoins)}

\* Every dictionary over OptKeys whose present entries hold `v`
DictsOf(v) == [OptKeys -> {ABSENT, v}]

\* User metadata of the mapping specification: two cubes, every combination
\* of model-level and cube-level mappings, with and without joins that make
\* the call for c1 fail.
MappingModels ==
    {[datastore |-> "ds_model",
      has_browser_options |-> FALSE,
      browser_options |-> EmptyDict,
      mappings |-> mp,
      joins |-> mj,
      has_options |-> FALSE,
      options |-> EmptyDict,
      cubes |-> << [name |-> "c1", datastore |-> ABSENT,
                    browser_options |-> EmptyDict, mappings |-> cmp1,
                    joins |-> cj, options |-> EmptyDict],
                   [name |-> "c2", datastore |-> ABSENT,
                    browser_options |-> EmptyDict, mappings |-> cmp2,
                    joins |-> << >>, options |-> EmptyDict] >>,
      dimensions |-> << Dim("d1") >>] :
        mp \in DictsOf("m"),
        cmp1 \in DictsOf("c1"),
        cmp2 \in DictsOf("c2"),
        mj \in {<< >>,
                << [name |-> "j1", master |-> "m.master",
                    detail |-> "m.detail", alias |-> ABSENT] >>},
        cj \in {<< >>,
                << [name |-> "j2", master |-> "c.master",
                    detail |-> ABSENT, alias |-> ABSENT] >>}}

----------------------------------------------------------------------------
(* The provider as a state machine *)

\* ModelProvider.__init__ (lines 230-249) on the user metadata `user`
Construct(user) ==
    /\ store = NONE
    /\ store_name = NONE
    /\ metadata = InitialMetadata(user)
    /\ dimensions_metadata = NameMap(user.dimensions)
    /\ cubes_metadata = NameMap(user.cubes)
    /\ options = InitialOptions(user)
    /\ initCalls = 0
    /\ setStoreCalls = 0
    /\ result = NoResult
    /\ metadata0 = metadata
    /\ cubes_metadata0 = cubes_metadata
    /\ dimensions_metadata0 = dimensions_metadata
    /\ BundleIdle
    /\ ValidatorIdle
    /\ MergeIdle

Init == \E user \in ProviderModels : Construct(user)

InitJoins == \E user \in JoinModels : Construct(user)

\* The call op(name) resolving a cube: the outcome is recorded and the
\* model's browser_options and mappings are left as lines 351-353 and
\* 358-367 leave them.
ResolveCall(op, name) ==
    LET out == CubeMetadataOutcome(metadata, cubes_metadata, name)
    IN  /\ result' = [NoResult EXCEPT !.op = op, !.name = name,
                                      !.status = out.status,
                                      !.error = out.error,
                                      !.cube = out.cube]
        /\ metadata' = [metadata EXCEPT
                            !.browser_options = out.model_browser_options,
                            !.mappings = out.model_mappings]
        /\ UNCHANGED << cubes_metadata, dimensions_metadata, options, store,
                        store_name, initCalls, setStoreCalls, metadata0,
                        cubes_metadata0, dimensions_metadata0 >>
        /\ UNCHANGED << bundleVars, validatorVars, mergeVars >>

\* ModelProvider.cube_metadata(name)
CubeMetadata == \E name \in CubeNames : ResolveCall("cube_metadata", name)

\* StaticModelProvider.cube(name): cube_metadata(name) handed to create_cube
Cube == \E name \in CubeNames : ResolveCall("cube", name)

\* Lines 322-329
CubeOptionsValue(opts, cubes, cube_name) ==
    IF cube_name \in DOMAIN cubes
    THEN DictUpdate(DictUpdate(opts, cubes[cube_name].options),
                    cubes[cube_name].browser_options)
    ELSE opts

\* ModelProvider.cube_options(cube_name)
CubeOptions ==
    \E name \in CubeNames :
        /\ result' = [NoResult EXCEPT
                        !.op = "cube_options", !.name = name, !.status = "ok",
                        !.opts = CubeOptionsValue(options, cubes_metadata, name)]
        /\ UNCHANGED << metadata, cubes_metadata, dimensions_metadata, options,
                        store, store_name, initCalls, setStoreCalls, metadata0,
                        cubes_metadata0, dimensions_metadata0 >>
        /\ UNCHANGED << bundleVars, validatorVars, mergeVars >>

\* DimensionMetadataOutcome as self.dimensions_metadata.get(name) would
\* behave: no failure on a missing name.
DimensionMetadataGet(dims, name) ==
    IF name \in DOMAIN dims
    THEN [status |-> "ok", dim |-> dims[name]]
    ELSE [status |-> "ok", dim |-> NoDim]

\* Line 333: self.dimensions_metadata[name]
DimensionMetadataOutcome(dims, name) ==
    IF name \in DOMAIN dims
    THEN [status |-> "ok", dim |-> dims[name]]
    ELSE [status |-> "KeyError", dim |-> NoDim]

\* ModelProvider.dimension_metadata(name)
DimensionMetadata ==
    \E name \in DimNames :
        LET out == DimensionMetadataOutcome(dimensions_metadata, name)
        IN  /\ result' = [NoResult EXCEPT
                            !.op = "dimension_metadata", !.name = name,
                            !.status = out.status, !.dim = out.dim]
            /\ UNCHANGED << metadata, cubes_metadata, dimensions_metadata,
                            options, store, store_name, initCalls,
                            setStoreCalls, metadata0, cubes_metadata0,
                            dimensions_metadata0 >>
            /\ UNCHANGED << bundleVars, validatorVars, mergeVars >>

\* Lines 516-521: the KeyError of the lookup becomes NoSuchDimensionError
DimensionOutcome(dims, name) ==
    IF name \in DOMAIN dims
    THEN [status |-> "ok", dim |-> dims[name]]
    ELSE [status |-> "NoSuchDimensionError", dim |-> NoDim]

\* StaticModelProvider.dimension(name)
Dimension ==
    \E name \in DimNames :
        LET out == DimensionOutcome(dimensions_metadata, name)
        IN  /\ result' = [NoResult EXCEPT
                            !.op = "dimension", !.name = name,
                            !.status = out.status, !.dim = out.dim]
            /\ UNCHANGED << metadata, cubes_metadata, dimensions_metadata,
                            options, store, store_name, initCalls,
                            setStoreCalls, metadata0, cubes_metadata0,
                            dimensions_metadata0 >>
            /\ UNCHANGED << bundleVars, validatorVars, mergeVars >>

\* InitCallsAfterSetStore with the hook guarded by "no store attached yet"
InitCallsOnlyWhenUnbound(old_store, calls) ==
    IF old_store = NONE THEN calls + 1 ELSE calls

\* Lines 306-308: the number of initialize_from_store() invocations after
\* set_store ran on a provider that had made `calls` of them
InitCallsAfterSetStore(old_store, calls) == calls + 1

\* ModelProvider.set_store(store, store_name)
SetStore ==
    \E s \in Stores, n \in StoreNames :
        /\ setStoreCalls < MaxSetStore
        /\ store' = s
        /\ store_name' = n
        /\ initCalls' = InitCallsAfterSetStore(store, initCalls)
        /\ setStoreCalls' = setStoreCalls + 1
        /\ UNCHANGED << metadata, cubes_metadata, dimensions_metadata, options,
                        result, metadata0, cubes_metadata0,
                        dimensions_metadata0 >>
        /\ UNCHANGED << bundleVars, validatorVars, mergeVars >>

Next ==
    \/ CubeMetadata
    \/ Cube
    \/ CubeOptions
    \/ DimensionMetadata
    \/ Dimension
    \/ SetStore

Spec == Init /\ [][Next]_vars

NextJoins == CubeMetadata

SpecJoins == InitJoins /\ [][NextJoins]_vars

InitMappings == \E user \in MappingModels : Construct(user)

NextMappings == CubeMetadata

SpecMappings == InitMappings /\ [][NextMappings]_vars

----------------------------------------------------------------------------
(* Model bundles: read_model_metadata_bundle / write_model_metadata_bundle *)

\* An element of a "dimensions" or "cubes" list: a dictionary with (or
\* without) a "name" and one more key, or a bare string.
BareEntry(n) == [bare |-> TRUE, name |-> n, label |-> ABSENT]

DictEntry(n, l) == [bare |-> FALSE, name |-> n, label |-> l]

\* A file of a directory other than model.json: its name is
\* <prefix>_<stem><ext>, its content the JSON object desc.
File(prefix, stem, ext, desc) ==
    [prefix |-> prefix, stem |-> stem, ext |-> ext, desc |-> desc]

\* Content of a model.json: the top-level "name" key and the two lists with
\* the flags telling whether their keys are there.
ModelJson(n, has_dims, dims, has_cubes, cubes) ==
    [name |-> n, has_dimensions |-> has_dims, dimensions |-> dims,
     has_cubes |-> has_cubes, cubes |-> cubes]

NoModelJson == ModelJson(ABSENT, FALSE, << >>, FALSE, << >>)

\* What a path is: nothing, a plain file, or a directory holding (or not)
\* a model.json and a set of other files.
NoPath ==
    [kind |-> "none", has_model |-> FALSE, model |-> NoModelJson, files |-> {}]

PlainFile ==
    [kind |-> "file", has_model |-> FALSE, model |-> NoModelJson, files |-> {}]

Directory(has_model, model, files) ==
    [kind |-> "dir", has_model |-> has_model, model |-> model, files |-> files]

\* `name in list` (lines 138, 150): a string equals an element of the list
\* only if that element is a string itself, never if it is a dictionary.
NameInList(name, list) ==
    \E i \in 1..Len(list) : list[i].bare /\ list[i].name = name

\* Lines 124-153: one file of the walk. acc is the load so far.
ReadFile(acc, f) ==
    IF f.ext # ".json" THEN acc
    ELSE IF f.prefix \in {"dim", "dimension"}
    THEN IF f.desc.name = ABSENT
         THEN [acc EXCEPT !.status = "ModelError", !.kind = "no_name"]
         ELSE IF NameInList(f.desc.name, acc.model.dimensions)
         \* line 139-140: the message is formatted with one argument too
         \* many, which raises TypeError in place of the ModelError
         THEN [acc EXCEPT !.status = "TypeError", !.kind = "duplicate_dimension"]
         ELSE [acc EXCEPT !.model.dimensions = Append(@, f.desc)]
    ELSE IF f.prefix = "cube"
    THEN IF f.desc.name = ABSENT
         THEN [acc EXCEPT !.status = "ModelError", !.kind = "no_name"]
         ELSE IF NameInList(f.desc.name, acc.model.cubes)
         THEN [acc EXCEPT !.status = "ModelError", !.kind = "duplicate_cube"]
         ELSE [acc EXCEPT !.model.cubes = Append(@, f.desc)]
    ELSE acc

\* Lines 122-153: the files in walk order, up to the first failure
RECURSIVE ReadFiles(_, _)
ReadFiles(acc, order) ==
    IF acc.status # "ok" \/ order = << >>
    THEN acc
    ELSE ReadFiles(ReadFile(acc, Head(order)), Tail(order))

EmptyModel == [name |-> ABSENT, dimensions |-> << >>, cubes |-> << >>]

NotRead == [status |-> "none", kind |-> "none", model |-> EmptyModel]

\* Lines 104-155: read_model_metadata_bundle(path), os.walk visiting the
\* files of the directory in the given order.
ReadOutcome(path, order) ==
    IF path.kind # "dir"
    THEN [status |-> "ArgumentError", kind |-> "not_a_directory",
          model |-> EmptyModel]
    ELSE IF ~path.has_model
    THEN [status |-> "ModelError", kind |-> "no_model_json",
          model |-> EmptyModel]
    ELSE LET start == [status |-> "ok", kind |-> "none",
                       model |-> [name |-> path.model.name,
                                  dimensions |-> path.model.dimensions,
                                  cubes |-> path.model.cubes]]
             done  == ReadFiles(start, order)
         IN  IF done.status = "ok" THEN done
             ELSE [done EXCEPT !.model = EmptyModel]

\* Every order in which a walk may list the files of a directory
RECURSIVE WalkOrders(_)
WalkOrders(files) ==
    IF files = {} THEN {<< >>}
    ELSE UNION {{<< f >> \o rest : rest \in WalkOrders(files \ {f})} : f \in files}

\* open(filename, "w") followed by json.dump: the file of that name is
\* created or overwritten.
PutFile(files, f) ==
    {g \in files : ~(g.prefix = f.prefix /\ g.stem = f.stem /\ g.ext = f.ext)}
        \cup {f}

\* Lines 182-192: one file per entry, named after entry["name"]; indexing a
\* bare string raises TypeError, a dictionary without the key KeyError.
RECURSIVE WriteEntries(_, _, _)
WriteEntries(acc, prefix, entries) ==
    IF acc.status # "ok" \/ entries = << >>
    THEN acc
    ELSE LET e == Head(entries)
         IN  IF e.bare THEN [acc EXCEPT !.status = "TypeError"]
             ELSE IF e.name = ABSENT THEN [acc EXCEPT !.status = "KeyError"]
             ELSE WriteEntries(
                     [acc EXCEPT !.target.files =
                         PutFile(@, File(prefix, e.name, ".json", e))],
                     prefix, Tail(entries))

\* TargetCheck taking the replace flag as overriding every conflict
TargetCheckReplaceAnything(path, replace) ==
    IF path.kind = "none" THEN "create"
    ELSE IF replace THEN "replace"
    ELSE IF path.kind # "dir" THEN "target_is_file"
    ELSE IF ~path.has_model THEN "not_a_model_directory"
    ELSE "target_exists"

\* Lines 162-173: what becomes of an existing target
TargetCheck(path, replace) ==
    IF path.kind = "none" THEN "create"
    ELSE IF path.kind # "dir" THEN "target_is_file"
    ELSE IF ~path.has_model THEN "not_a_model_directory"
    ELSE IF replace THEN "replace"
    ELSE "target_exists"

NotWritten == [status |-> "none", kind |-> "none", replace |-> FALSE,
               before |-> NoPath, target |-> NoPath]

\* Lines 158-196: write_model_metadata_bundle(path, metadata, replace): the
\* outcome and the path as the call leaves it.
WriteOutcome(path, md, replace) ==
    LET check == TargetCheck(path, replace)
    IN  IF check \notin {"create", "replace"}
        THEN [status |-> "CubesError", kind |-> check, replace |-> replace,
              before |-> path, target |-> path]
        ELSE
            LET fresh == [status |-> "ok", kind |-> check, replace |-> replace,
                          before |-> path,
                          target |-> Directory(FALSE, NoModelJson, {})]
                dims  == WriteEntries(fresh, "dim", md.dimensions)
                cubes == WriteEntries(dims, "cube", md.cubes)
            IN  IF cubes.status # "ok" THEN cubes
                ELSE [cubes EXCEPT
                        !.target.has_model = TRUE,
                        !.target.model =
                            ModelJson(md.name, FALSE, << >>, FALSE, << >>)]

----------------------------------------------------------------------------
(* Bounds and input sets of the bundle specification *)

MaxFragments == 2

\* Files a source bundle may hold besides model.json
SourceFiles ==
    { File("dim", "a", ".json", DictEntry("a", "x")),
      File("dim", "b", ".json", DictEntry("b", "x")),
      File("dimension", "a", ".json", DictEntry("a", "y")),
      File("dim", "c", ".json", DictEntry(ABSENT, "x")),
      File("cube", "a", ".json", DictEntry("a", "x")),
      File("cube", "b", ".json", DictEntry("a", "y")),
      File("note", "a", ".json", DictEntry("a", "x")),
      File("dim", "a", ".txt", DictEntry("a", "x")) }

SourceModelJsons ==
    {ModelJson("m", dims[1], dims[2], cubes[1], cubes[2]) :
        dims \in {<<FALSE, << >> >>, <<TRUE, << BareEntry("a") >> >>,
                  <<TRUE, << DictEntry("a", "z") >> >>},
        cubes \in {<<FALSE, << >> >>, <<TRUE, << DictEntry("a", "z") >> >>}}

SourceBundles ==
    {Directory(TRUE, mj, fs) :
        mj \in SourceModelJsons,
        fs \in {f \in SUBSET SourceFiles : Cardinality(f) <= MaxFragments}}

OldFiles == { File("cube", "a", ".json", DictEntry("a", "old")),
              File("note", "b", ".txt", DictEntry("b", "old")) }

OldModelJson == ModelJson("old", FALSE, << >>, FALSE, << >>)

\* What the target of the write may be beforehand
Targets ==
    { NoPath, PlainFile,
      Directory(FALSE, NoModelJson, OldFiles),
      Directory(TRUE, OldModelJson, OldFiles) }

----------------------------------------------------------------------------
(* Reading a bundle, writing it to the target, reading the target back *)

InitBundle ==
    /\ src \in SourceBundles
    /\ target \in Targets
    /\ pc = "start"
    /\ model1 = NotRead
    /\ written = NotWritten
    /\ model2 = NotRead
    /\ ProviderIdle
    /\ ValidatorIdle
    /\ MergeIdle

\* model = read_model_metadata_bundle(src)
ReadBundle ==
    /\ pc = "start"
    /\ \E order \in WalkOrders(src.files) : model1' = ReadOutcome(src, order)
    /\ pc' = "read"
    /\ UNCHANGED << src, target, written, model2, providerVars, validatorVars,
                    mergeVars >>

\* write_model_metadata_bundle(target, model, replace)
WriteBundle ==
    /\ pc = "read"
    /\ model1.status = "ok"
    /\ \E replace \in BOOLEAN :
          /\ written' = WriteOutcome(target, model1.model, replace)
          /\ target' = written'.target
    /\ pc' = "written"
    /\ UNCHANGED << src, model1, model2, providerVars, validatorVars,
                    mergeVars >>

\* read_model_metadata_bundle(target)
ReadBack ==
    /\ pc = "written"
    /\ written.status = "ok"
    /\ \E order \in WalkOrders(target.files) :
          model2' = ReadOutcome(target, order)
    /\ pc' = "done"
    /\ UNCHANGED << src, target, model1, written, providerVars, validatorVars,
                    mergeVars >>

NextBundle ==
    \/ ReadBundle
    \/ WriteBundle
    \/ ReadBack

SpecBundle == InitBundle /\ [][NextBundle]_vars

----------------------------------------------------------------------------
(* ModelMetadataValidator *)

\* ValidationError(severity, scope, object, property, message); the message
\* is kept as its kind and the name formatted into it.
Issue(severity, scope, object, property, message, arg) ==
    [severity |-> severity, scope |-> scope, object |-> object,
     property |-> property, message |-> message, arg |-> arg]

\* Lines 646-659: one "error" issue per mismatch the schema validator
\* reports. The schemas are package data; whether an object conforms is an
\* input of the model (its `mismatch` flag).
CollectErrors(scope, obj, mismatch) ==
    IF mismatch
    THEN << Issue("error", scope, obj, NONE, "schema", NONE) >>
    ELSE << >>

\* Lines 665-674: one "default" issue per dimension given as a bare string
RECURSIVE BareDimensionIssues(_)
BareDimensionIssues(dims) ==
    IF dims = << >> THEN << >>
    ELSE (IF Head(dims).bare
          THEN << Issue("default", "model", NONE, "dimensions",
                        "not_described", Head(dims).name) >>
          ELSE << >>) \o BareDimensionIssues(Tail(dims))

\* Lines 661-676: validate_model()
ValidateModelIssues(md) ==
    CollectErrors("model", NONE, md.mismatch) \o BareDimensionIssues(md.dimensions)

\* Lines 678-682: validate_cube(cube)
ValidateCubeIssues(cube) ==
    CollectErrors("cube", Get(cube, "name"), cube.mismatch)

\* Lines 684-707: validate_dimension(dim) for a dictionary dim
ValidateDimensionIssues(dim) ==
    LET name == Get(dim, "name")
    IN  CollectErrors("dimension", name, dim.mismatch)
        \o (IF ~dim.default_hierarchy_name
            THEN << Issue("default", "dimension", name, NONE,
                          "no_default_hierarchy_name", NONE) >>
            ELSE << >>)
        \o (IF ~dim.levels /\ ~dim.attributes
            THEN << Issue("default", "dimension", name, NONE,
                          "neither_levels_nor_attributes", NONE) >>
            ELSE IF dim.levels /\ dim.attributes
            THEN << Issue("error", "dimension", name, NONE,
                          "both_levels_and_attributes", NONE) >>
            ELSE << >>)

\* Lines 636-642: the loops over cubes and dimensions. cube.get / dim.get
\* (lines 680, 686) raise AttributeError when the element is a string.
RECURSIVE ValidateEach(_, _, _)
ValidateEach(acc, objs, scope) ==
    IF acc.status # "ok" \/ objs = << >>
    THEN acc
    ELSE IF Head(objs).bare
    THEN [status |-> "AttributeError", issues |-> << >>]
    ELSE ValidateEach(
            [acc EXCEPT !.issues =
                @ \o (IF scope = "cube"
                      THEN ValidateCubeIssues(Head(objs))
                      ELSE ValidateDimensionIssues(Head(objs)))],
            Tail(objs), scope)

\* Lines 612-644: validate_model(metadata)
ValidateOutcome(md) ==
    LET model == [status |-> "ok", issues |-> ValidateModelIssues(md)]
        cubes == ValidateEach(model, md.cubes, "cube")
    IN  ValidateEach(cubes, md.dimensions, "dimension")

NotValidated == [status |-> "none", issues |-> << >>]

----------------------------------------------------------------------------
(* Bounds and input sets of the validator specification *)

MaxDimensions == 2

ValidatorDimensions ==
    {[bare |-> TRUE, name |-> n, default_hierarchy_name |-> FALSE,
      levels |-> FALSE, attributes |-> FALSE, mismatch |-> FALSE] :
        n \in {"a", "b"}}
    \cup
    {[bare |-> FALSE, name |-> "a", default_hierarchy_name |-> dh,
      levels |-> lv, attributes |-> at, mismatch |-> mm] :
        dh \in BOOLEAN, lv \in BOOLEAN, at \in BOOLEAN, mm \in BOOLEAN}

ValidatorCubes ==
    {[bare |-> FALSE, name |-> "c", mismatch |-> mm] : mm \in BOOLEAN}

ValidatorInputs ==
    {[mismatch |-> mm, cubes |-> cs, dimensions |-> ds] :
        mm \in BOOLEAN,
        cs \in SeqsUpTo(ValidatorCubes, 1),
        ds \in SeqsUpTo(ValidatorDimensions, MaxDimensions)}

InitValidate ==
    /\ vmeta \in ValidatorInputs
    /\ vresult = NotValidated
    /\ ProviderIdle
    /\ BundleIdle
    /\ MergeIdle

\* validate_model(vmeta)
Validate ==
    /\ vresult.status = "none"
    /\ vresult' = ValidateOutcome(vmeta)
    /\ UNCHANGED << vmeta, providerVars, bundleVars, mergeVars >>

NextValidate == Validate

SpecValidate == InitValidate /\ [][NextValidate]_vars

----------------------------------------------------------------------------
(* ModelProvider._merge_metadata *)

\* Top-level keys of a model other than cubes, dimensions, joins, mappings
TopKeys == {"name", "datastore"}

EmptyTop == [k \in TopKeys |-> ABSENT]

\* A metadata dictionary as _merge_metadata sees it: pop(key, []) of the
\* three lists, pop("mappings", {}) with the flag telling whether the key
\* is there, and the remaining keys.
MergeInput(cubes, dims, joins, has_mappings, mappings, other) ==
    [cubes |-> cubes, dimensions |-> dims, joins |-> joins,
     has_mappings |-> has_mappings, mappings |-> mappings, other |-> other]

\* MergeMetadata with the lists put together the wrong way round: the
\* user's entries ahead of the defaults.
MergeMetadataUserFirst(defaults, user) ==
    LET cubes    == user.cubes \o defaults.cubes
        dims     == user.dimensions \o defaults.dimensions
        joins    == user.joins \o defaults.joins
        mappings == DictUpdate(defaults.mappings, user.mappings)
    IN  [has_cubes |-> cubes # << >>, cubes |-> cubes,
         has_dimensions |-> dims # << >>, dimensions |-> dims,
         has_joins |-> joins # << >>, joins |-> joins,
         has_mappings |-> NonEmpty(mappings), mappings |-> mappings,
         other |-> DictUpdate(defaults.other, user.other)]

\* Lines 254-276: the dictionary _merge_metadata(defaults, user) returns.
\* A list or the mappings get their key only when they are not empty
\* (lines 258, 262, 266, 271).
MergeMetadata(defaults, user) ==
    LET cubes    == defaults.cubes \o user.cubes
        dims     == defaults.dimensions \o user.dimensions
        joins    == defaults.joins \o user.joins
        mappings == DictUpdate(defaults.mappings, user.mappings)
    IN  [has_cubes |-> cubes # << >>, cubes |-> cubes,
         has_dimensions |-> dims # << >>, dimensions |-> dims,
         has_joins |-> joins # << >>, joins |-> joins,
         has_mappings |-> NonEmpty(mappings), mappings |-> mappings,
         other |-> DictUpdate(defaults.other, user.other)]

\* Lines 269-270: metadata.pop("mappings", {}) is the defaults' own
\* dictionary when the key is there (dict(metadata) at line 254 is a
\* shallow copy), and update() changes it in place.
DefaultsMappingsAfter(defaults, user) ==
    IF defaults.has_mappings
    THEN DictUpdate(defaults.mappings, user.mappings)
    ELSE defaults.mappings

NoMerged == MergeMetadata(
    MergeInput(<< >>, << >>, << >>, FALSE, EmptyDict, EmptyTop),
    MergeInput(<< >>, << >>, << >>, FALSE, EmptyDict, EmptyTop))

NotMerged == [status |-> "none", merged |-> NoMerged,
              defaults_mappings |-> EmptyDict]

----------------------------------------------------------------------------
(* Bounds and input sets of the merge specification *)

MaxMergeList == 1

MergeEntries == {"x", "y"}

TopOf(k, v) == [EmptyTop EXCEPT ![k] = v]

\* What default_metadata() of a provider may return
MergeDefaults ==
    {MergeInput(cs, ds, js, mp[1], mp[2], ot) :
        cs \in SeqsUpTo(MergeEntries, MaxMergeList),
        ds \in {<< >>, << "x" >>},
        js \in {<< >>, << "x" >>},
        mp \in {<<FALSE, EmptyDict>>, <<TRUE, EmptyDict>>,
                <<TRUE, DictOf("k1", "d")>>,
                <<TRUE, [k1 |-> "d", k2 |-> "d"]>>},
        ot \in {EmptyTop, TopOf("name", "d"),
                [name |-> "d", datastore |-> "d"]}}

\* What the user may hand to the constructor
MergeUsers ==
    {MergeInput(cs, ds, js, NonEmpty(mp), mp, ot) :
        cs \in SeqsUpTo(MergeEntries, MaxMergeList),
        ds \in {<< >>, << "y" >>},
        js \in {<< >>, << "x" >>},
        mp \in {EmptyDict, DictOf("k1", "u"), DictOf("k2", "u")},
        ot \in {EmptyTop, TopOf("name", "u"), TopOf("datastore", "u")}}

InitMerge ==
    /\ mdefaults \in MergeDefaults
    /\ muser \in MergeUsers
    /\ mresult = NotMerged
    /\ ProviderIdle
    /\ BundleIdle
    /\ ValidatorIdle

\* self._merge_metadata(mdefaults, muser), line 236
Merge ==
    /\ mresult.status = "none"
    /\ mresult' = [status |-> "ok",
                   merged |-> MergeMetadata(mdefaults, muser),
                   defaults_mappings |-> DefaultsMappingsAfter(mdefaults, muser)]
    /\ UNCHANGED << mdefaults, muser, providerVars, bundleVars, validatorVars >>

NextMerge == Merge

SpecMerge == InitMerge /\ [][NextMerge]_vars

----------------------------------------------------------------------------
(* Properties of the provider *)

\* C1: cube resolution never mutates the stored model: after any sequence of
\* cube_metadata / cube calls the provider's metadata, cubes_metadata and
\* dimensions_metadata equal what the constructor left.
C1_StoredModelNeverMutated ==
    /\ metadata = metadata0
    /\ cubes_metadata = cubes_metadata0
    /\ dimensions_metadata = dimensions_metadata0

IsResolution == result.op = "cube_metadata"

\* C2: cube_metadata(c) for a registered cube c yields, after any earlier
\* calls, the outcome it yields as the first call on a fresh provider.
C2_ResolutionOrderIndependent ==
    (IsResolution /\ result.name \in DOMAIN cubes_metadata0) =>
        LET fresh == CubeMetadataOutcome(metadata0, cubes_metadata0, result.name)
        IN  /\ result.status = fresh.status
            /\ result.error = fresh.error
            /\ result.cube = fresh.cube

\* The case of C3: cube_metadata(c) returned, the model and the cube both
\* have joins, and the model joins all carry pairwise distinct names.
JoinMergeCase ==
    /\ IsResolution
    /\ result.status = "ok"
    /\ Len(metadata0.joins) > 0
    /\ Len(cubes_metadata0[result.name].joins) > 0
    /\ \A i \in 1..Len(metadata0.joins) :
          /\ metadata0.joins[i].name # ABSENT
          /\ \A k \in 1..Len(metadata0.joins) :
                k # i => metadata0.joins[k].name # metadata0.joins[i].name

\* The model join overwritten field by field by the cube join
Overwritten(mjoin, cjoin, rjoin) ==
    \A key \in JoinKeys :
        rjoin[key] = IF cjoin[key] # ABSENT THEN cjoin[key] ELSE mjoin[key]

\* The resolved list follows the cube's list, and element i is the matching
\* model join overwritten by cube join i when Matches(cube join i) holds for
\* a model join of the same name, else cube join i itself.
JoinsMergedByName(Matches(_)) ==
    LET mj == metadata0.joins
        cj == cubes_metadata0[result.name].joins
        rj == result.cube.joins
    IN  /\ Len(rj) = Len(cj)
        /\ \A i \in 1..Len(cj) :
              IF Matches(cj[i].name) /\ \E m \in 1..Len(mj) : mj[m].name = cj[i].name
              THEN \A m \in 1..Len(mj) :
                      mj[m].name = cj[i].name => Overwritten(mj[m], cj[i], rj[i])
              ELSE rj[i] = cj[i]

AnyName(n) == n # ABSENT

NonEmptyName(n) == n # ABSENT /\ n # ""

\* C3 as stated: join merging by name, a cube join being merged whenever it
\* has a name equal to a model join's name.
C3_JoinsMergedByAnyName == JoinMergeCase => JoinsMergedByName(AnyName)

\* C3 amended: join merging by name, a cube join being merged when it has a
\* non-empty name equal to a model join's name; a cube join without a name
\* or with an empty name passes through as it is.
C3_JoinsMergedByNonEmptyName == JoinMergeCase => JoinsMergedByName(NonEmptyName)

\* Two cube joins resolved: the first merged over a model join, taking the
\* model's master and alias and keeping its own detail, the second passed on.
C3_Witness ==
    /\ JoinMergeCase
    /\ Len(result.cube.joins) = 2
    /\ result.cube.joins[1] = [name |-> "j1", master |-> "m.master",
                               detail |-> "c.detail", alias |-> "m.alias"]
    /\ result.cube.joins[2].alias = ABSENT
    /\ \E m \in 1..Len(metadata0.joins) :
          /\ metadata0.joins[m].name = "j1"
          /\ metadata0.joins[m].detail = "m.detail"

\* C4: cube_metadata(c) returns only joins carrying master and detail, and a
\* failure for an incomplete join cites the cube c and that join's name.
C4_InvalidJoinCitesCube ==
    (IsResolution /\ result.name \in DOMAIN cubes_metadata0) =>
        /\ result.status = "ok" =>
              \A i \in 1..Len(result.cube.joins) : ~JoinBad(result.cube.joins[i])
        /\ result.error.kind \in {"no_master", "no_detail"} =>
              /\ result.error.cube = result.name
              /\ LET merged == MergedJoins(metadata0.joins,
                                           cubes_metadata0[result.name].joins)
                 IN  \E i \in 1..Len(merged) :
                        /\ JoinBad(merged[i])
                        /\ result.error.join = Get(merged[i], "name")

\* C8 as stated: initialize_from_store has run exactly once as soon as one
\* set_store call was made, however many follow, and not at all before.
C8_InitHookExactlyOnce ==
    /\ setStoreCalls = 0 => initCalls = 0
    /\ setStoreCalls >= 1 => initCalls = 1

\* C8 amended: initialize_from_store runs once in every set_store call and
\* nowhere else, so it has run as many times as set_store was called, and
\* not at all while no store was ever set.
C8_InitHookOncePerSetStore ==
    /\ initCalls = setStoreCalls
    /\ store = NONE => initCalls = 0

C8_Witness == setStoreCalls = 2 /\ initCalls = 2 /\ result.op = "cube"

\* C9 as stated: cube_options / dimension_metadata on an unregistered name
\* fail with NoSuchCubeError / NoSuchDimensionError.
C9_AccessorsFailOnUnknown ==
    /\ (result.op = "cube_options" /\ result.name \notin DOMAIN cubes_metadata)
          => result.status = "NoSuchCubeError"
    /\ (result.op = "dimension_metadata"
            /\ result.name \notin DOMAIN dimensions_metadata)
          => result.status = "NoSuchDimensionError"

\* C9 amended: cube_options on an unregistered name does not fail and
\* returns the model's options overlaid with the model's browser_options;
\* dimension_metadata on an unregistered name fails with a KeyError and
\* returns no value.
C9_AccessorsOnUnknown ==
    /\ (result.op = "cube_options" /\ result.name \notin DOMAIN cubes_metadata)
          => /\ result.status = "ok"
             /\ \A k \in OptKeys :
                   result.opts[k] = IF Has(metadata0.browser_options, k)
                                    THEN metadata0.browser_options[k]
                                    ELSE metadata0.options[k]
    /\ (result.op = "dimension_metadata"
            /\ result.name \notin DOMAIN dimensions_metadata)
          => /\ result.status = "KeyError"
             /\ result.dim = NoDim

C9_Witness ==
    \/ /\ result.op = "cube_options"
       /\ result.name = "cX"
       /\ result.opts = [k1 |-> "m", k2 |-> "o"]
    \/ /\ result.op = "dimension_metadata"
       /\ result.name = "dX"
       /\ result.status = "KeyError"

----------------------------------------------------------------------------
(* Properties of the bundle reader and writer *)

DistinctNames(list) ==
    \A i, k \in 1..Len(list) : i # k => list[i].name # list[k].name

\* C5: a fragment naming a dimension or cube already collected makes the
\* load fail, so every assembled model has pairwise distinct cube names and
\* pairwise distinct dimension names.
C5_AssembledNamesDistinct ==
    model1.status = "ok" =>
        /\ DistinctNames(model1.model.dimensions)
        /\ DistinctNames(model1.model.cubes)

Count(list, x) == Cardinality({i \in 1..Len(list) : list[i] = x})

\* The same elements as often, in whatever order
SameElements(l1, l2) ==
    /\ Len(l1) = Len(l2)
    /\ \A i \in 1..Len(l1) : Count(l1, l1[i]) = Count(l2, l1[i])

EquivalentModels(m1, m2) ==
    /\ m1.name = m2.name
    /\ SameElements(m1.dimensions, m2.dimensions)
    /\ SameElements(m1.cubes, m2.cubes)

\* C6: a model assembled from a bundle, written to a fresh target and read
\* from there again is equivalent to the model first assembled (the lists
\* compared without regard to their order).
C6_BundleRoundTrip ==
    (model1.status = "ok" /\ written.status # "none" /\ written.before = NoPath) =>
        /\ written.status = "ok"
        /\ pc = "done" =>
              /\ model2.status = "ok"
              /\ EquivalentModels(model1.model, model2.model)

Refused == written.status = "CubesError" /\ written.target = written.before

NoOldFileSurvives ==
    /\ written.target.files \cap written.before.files = {}
    /\ written.before.has_model =>
          ~(written.target.has_model
                /\ written.target.model = written.before.model)

AmbiguousTarget ==
    \/ written.before.kind = "file"
    \/ written.before.kind = "dir" /\ ~written.before.has_model

\* C7 as stated: the write is refused, the target left as it is, when the
\* target is a plain file or a directory without model.json, unless replace
\* is set; with replace set an existing directory is removed completely
\* before the bundle is written.
C7_RefusesUnlessReplace ==
    written.status # "none" =>
        /\ (AmbiguousTarget /\ ~written.replace) => Refused
        /\ (written.replace /\ written.before.kind = "dir") =>
              (~Refused /\ NoOldFileSurvives)

\* C7 amended: the write is refused, the target left as it is, when the
\* target is a plain file or a directory without model.json, whether or not
\* replace is set; with replace set a directory holding model.json is
\* removed completely before the bundle is written.
C7_RefusesAmbiguousTarget ==
    written.status # "none" =>
        /\ AmbiguousTarget => Refused
        /\ (written.replace /\ written.before.kind = "dir"
                /\ written.before.has_model) =>
              (~Refused /\ NoOldFileSurvives)

C7_Witness ==
    /\ written.status = "ok"
    /\ written.replace
    /\ written.before = Directory(TRUE, OldModelJson, OldFiles)
    /\ written.target.model.name = "m"
    /\ File("cube", "a", ".json", DictEntry("a", "z")) \in written.target.files

----------------------------------------------------------------------------
(* Properties of the validator *)

BareNames(dims) == {dims[i].name : i \in {k \in 1..Len(dims) : dims[k].bare}}

\* C10: validating a model with a dimension given as a bare string runs to
\* completion, and the issues returned hold exactly one "default" issue
\* naming that dimension per such entry.
C10_BareDimensionFailSoft ==
    (vresult.status # "none" /\ BareNames(vmeta.dimensions) # {}) =>
        /\ vresult.status = "ok"
        /\ \A n \in BareNames(vmeta.dimensions) :
              Cardinality({k \in 1..Len(vresult.issues) :
                              /\ vresult.issues[k].severity = "default"
                              /\ vresult.issues[k].message = "not_described"
                              /\ vresult.issues[k].arg = n})
                = Cardinality({i \in 1..Len(vmeta.dimensions) :
                                  /\ vmeta.dimensions[i].bare
                                  /\ vmeta.dimensions[i].name = n})

----------------------------------------------------------------------------
(* Properties of the provider-default merge *)

\* list is first followed by second
Concatenated(list, first, second) ==
    /\ Len(list) = Len(first) + Len(second)
    /\ \A i \in 1..Len(first) : list[i] = first[i]
    /\ \A i \in 1..Len(second) : list[Len(first) + i] = second[i]

\* In dict every key of over has over's value, every other key base's
Overlaid(dict, base, over) ==
    \A k \in DOMAIN dict :
        /\ Has(over, k) => dict[k] = over[k]
        /\ ~Has(over, k) => dict[k] = base[k]

\* C11: _merge_metadata(D, U) returns M with the cubes, dimensions and joins
\* of D followed by those of U, the mappings of D updated key by key with
\* those of U, and every other key of U written over D's, D's other keys
\* kept. (A list or the mappings that come out empty are read with the
\* default the code reads them with: M has no key for them.)
C11_ProviderDefaultMerge ==
    mresult.status = "ok" =>
        LET M == mresult.merged
        IN  /\ Concatenated(M.cubes, mdefaults.cubes, muser.cubes)
            /\ Concatenated(M.dimensions, mdefaults.dimensions, muser.dimensions)
            /\ Concatenated(M.joins, mdefaults.joins, muser.joins)
            /\ Overlaid(M.mappings, mdefaults.mappings, muser.mappings)
            /\ Overlaid(M.other, mdefaults.other, muser.other)

\* Defaults and user both bring a cube, the same dimension-free join twice,
\* a mapping and a name: the user's mapping and name win, the defaults'
\* second mapping and datastore are kept.
C11_Witness ==
    /\ mresult.status = "ok"
    /\ mresult.merged.cubes = << "x", "y" >>
    /\ mresult.merged.joins = << "x", "x" >>
    /\ mdefaults.mappings = [k1 |-> "d", k2 |-> "d"]
    /\ mresult.merged.mappings = [k1 |-> "u", k2 |-> "d"]
    /\ mdefaults.other = [name |-> "d", datastore |-> "d"]
    /\ mresult.merged.other = [name |-> "u", datastore |-> "d"]

----------------------------------------------------------------------------
(* Properties of the mapping resolution *)

\* C12: for every registered cube c, the mappings of cube_metadata(c) are
\* the model's mappings overwritten key by key by c's mappings: a key of
\* both sides holds the cube's value and each key of either side is
\* present; when the model has no mappings the result is the cube's
\* mappings (empty when the cube has none); and the model's own mappings
\* are after the call what they were at construction.
C12_MappingPrecedence ==
    /\ metadata.mappings = metadata0.mappings
    /\ (IsResolution /\ result.name \in DOMAIN cubes_metadata0
                     /\ result.status = "ok") =>
           LET model == metadata0.mappings
               cube  == cubes_metadata0[result.name].mappings
           IN  /\ Overlaid(result.cube.mappings, model, cube)
               /\ (~NonEmpty(model) => result.cube.mappings = cube)
               /\ \A k \in OptKeys :
                      /\ Has(cube, k) => result.cube.mappings[k] = cube[k]
                      /\ (Has(model, k) /\ ~Has(cube, k)) =>
                             result.cube.mappings[k] = model[k]
                      /\ Has(result.cube.mappings, k) <=>
                             (Has(model, k) \/ Has(cube, k))

\* cube_metadata("c1") returned where the model maps k1 and k2 and the cube
\* maps k1 only: k1 holds the cube's value, k2 the model's, and the model
\* still holds its own value for k1.
C12_Witness ==
    /\ result.op = "cube_metadata"
    /\ result.name = "c1"
    /\ result.status = "ok"
    /\ metadata0.mappings = [k \in OptKeys |-> "m"]
    /\ cubes_metadata0["c1"].mappings = DictOf("k1", "c1")
    /\ result.cube.mappings["k1"] = "c1"
    /\ result.cube.mappings["k2"] = "m"
    /\ metadata.mappings["k1"] = "m"

----------------------------------------------------------------------------
(* Properties of the join name index *)

\* The call failed with a missing-join-name or duplicate-join-name error
NameIndexError ==
    result.error.kind \in {"missing_join_name", "duplicate_join_name"}

\* Some join of the list lacks a 'name' or two joins of it share a name
UnnamedOrDuplicate(joins) ==
    \/ \E i \in 1..Len(joins) : ~Has(joins[i], "name")
    \/ \E i, k \in 1..Len(joins) : i # k /\ joins[i].name = joins[k].name

\* C13: cube_metadata(c) for a registered cube c fails with a
\* missing-join-name or duplicate-join-name error if and only if the model's
\* join list and c's join list are both non-empty and some model join lacks
\* a 'name' or two model joins share one; when c or the model has no joins,
\* a call that returns gives c's join list unchanged, and when c has no
\* joins the call returns whatever the model joins are.
C13_NameIndexErrorsNeedBothSides ==
    (IsResolution /\ result.name \in DOMAIN cubes_metadata0) =>
        LET model_joins == metadata0.joins
            cube_joins  == cubes_metadata0[result.name].joins
        IN  /\ NameIndexError <=>
                    /\ model_joins # << >>
                    /\ cube_joins # << >>
                    /\ UnnamedOrDuplicate(model_joins)
            /\ (model_joins = << >> \/ cube_joins = << >>) =>
                    (result.status = "ok" => result.cube.joins = cube_joins)
            /\ cube_joins = << >> =>
                    (result.status = "ok" /\ result.cube.joins = << >>)

\* cube_metadata("c1") returned an empty join list for a cube without joins
\* under a model whose two joins are an unnamed one and then a copy of it.
C13_Witness ==
    /\ result.op = "cube_metadata"
    /\ result.name = "c1"
    /\ result.status = "ok"
    /\ cubes_metadata0["c1"].joins = << >>
    /\ Len(metadata0.joins) = 2
    /\ ~Has(metadata0.joins[1], "name")
    /\ metadata0.joins[2] = metadata0.joins[1]
    /\ result.cube.joins = << >>


====
